---- MODULE Spec2Model ----
(***************************************************************************)
(* Result model of robot.result.model: the suite / test / keyword tree,    *)
(* the status setters of StatusMixin, the derived suite status and elapsed *)
(* time, and the transformation passes started from TestSuite.             *)
(*                                                                         *)
(* The suite tree has a fixed shape.  A test, keyword, control node or     *)
(* message is a record; a body is a sequence of such records.              *)
(***************************************************************************)
EXTENDS Integers, Sequences, FiniteSets, TLC

VARIABLES
    tests,      \* suite -> sequence of the tests the suite holds (suite.tests)
    attrs,      \* suite -> its own attributes (doc, metadata, timestamps, fixtures)
    obj,        \* a node held by the caller outside the tree (test, keyword, control node)
    lastOp      \* the call made last: operation, receiver, argument, result, error

vars == <<tests, attrs, obj, lastOp>>

----------------------------------------------------------------------------
(* Bounds *)

MaxTests == 2
MaxMsgParts == 1
MaxNodes == 4

----------------------------------------------------------------------------
(* The suite tree *)

Suites == {"root", "sub1", "sub2", "sub11"}
NoSuite == "none"

\* Child suites of a suite, in order (suite.suites).
suites(s) ==
    IF s = "root" THEN <<"sub1", "sub2">>
    ELSE IF s = "sub1" THEN <<"sub11">>
    ELSE <<>>

\* suite.parent
parent(s) ==
    IF s \in {"sub1", "sub2"} THEN "root"
    ELSE IF s = "sub11" THEN "sub1"
    ELSE NoSuite

Range(q) == {q[i] : i \in 1..Len(q)}

\* The suites of the subtree of s, s included.
RECURSIVE Subtree(_)
Subtree(s) == {s} \cup UNION {Subtree(c) : c \in Range(suites(s))}

SuiteNode(s) == [type |-> "SUITE", id |-> s]

----------------------------------------------------------------------------
(* StatusMixin *)

PASS == "PASS"
FAIL == "FAIL"
SKIP == "SKIP"
NOT_RUN == "NOT RUN"
StatusValues == {PASS, FAIL, SKIP, NOT_RUN}

NoError == "none"
ValueError == "ValueError"
AttributeError == "AttributeError"

Raise(error, n) == [err |-> error, node |-> n]
Return(n) == [err |-> NoError, node |-> n]

\* Assignment to the status attribute.  Tests, keywords and control nodes keep
\* status in a slot; on a suite status is a property without a setter.
set_status(n, v) ==
    IF n.type = "SUITE" THEN Raise(AttributeError, n)
    ELSE Return([n EXCEPT !.status = v])

\* All tests of a suite and of its sub-suites, in visiting order.
RECURSIVE AllTests(_)
AllTests(s) ==
    LET RECURSIVE Sub(_)
        Sub(q) == IF q = <<>> THEN <<>> ELSE AllTests(Head(q)) \o Sub(Tail(q))
    IN Sub(suites(s)) \o tests[s]

\* StatusMixin.passed / failed / skipped of a node with a stored status
stored_passed(n) == n.status = PASS
stored_failed(n) == n.status = FAIL
stored_skipped(n) == n.status = SKIP

\* TotalStatisticsBuilder(suite).stats: counts over every test of the subtree.
statistics(s) ==
    LET all == AllTests(s)
    IN [passed  |-> Cardinality({i \in 1..Len(all) : stored_passed(all[i])}),
        failed  |-> Cardinality({i \in 1..Len(all) : stored_failed(all[i])}),
        skipped |-> Cardinality({i \in 1..Len(all) : stored_skipped(all[i])})]

\* A faulty status that counts the suite's own tests only.
TestSuite_status_OwnTests(s) ==
    IF \E i \in 1..Len(tests[s]) : stored_failed(tests[s][i]) THEN FAIL
    ELSE IF \E i \in 1..Len(tests[s]) : stored_passed(tests[s][i]) THEN PASS
    ELSE SKIP

\* A faulty status that lets a passed test hide a failed one.
TestSuite_status_PassFirst(s) ==
    LET stats == statistics(s)
    IN IF stats.passed # 0 THEN PASS
       ELSE IF stats.failed # 0 THEN FAIL
       ELSE SKIP

\* TestSuite.status
TestSuite_status(s) ==
    LET stats == statistics(s)
    IN IF stats.failed # 0 THEN FAIL
       ELSE IF stats.passed # 0 THEN PASS
       ELSE SKIP

\* self.status as read by the predicates of any node
node_status(n) == IF n.type = "SUITE" THEN TestSuite_status(n.id) ELSE n.status

\* passed / failed / skipped / not_run getters of any node
passed(n) == node_status(n) = PASS
failed(n) == node_status(n) = FAIL
skipped(n) == node_status(n) = SKIP

\* A faulty not_run that TestCase does not redefine.
not_run_Inherited(n) ==
    IF n.type = "SUITE" THEN FALSE ELSE node_status(n) = NOT_RUN

\* not_run getter: StatusMixin's, redefined by TestCase and TestSuite
not_run(n) ==
    IF n.type \in {"SUITE", "TEST"} THEN FALSE ELSE node_status(n) = NOT_RUN

\* passed setter: StatusMixin's on stored-status nodes; TestSuite redefines the
\* property without a setter.
set_passed(n, v) ==
    IF n.type = "SUITE" THEN Raise(AttributeError, n)
    ELSE set_status(n, IF v THEN PASS ELSE FAIL)

\* A faulty failed setter, copied from passed and not inverted.
set_failed_AsPassed(n, v) ==
    IF n.type = "SUITE" THEN Raise(AttributeError, n)
    ELSE set_status(n, IF v THEN PASS ELSE FAIL)

\* failed setter
set_failed(n, v) ==
    IF n.type = "SUITE" THEN Raise(AttributeError, n)
    ELSE set_status(n, IF v THEN FAIL ELSE PASS)

\* A faulty skipped setter that ignores a false value instead of raising.
set_skipped_Silent(n, v) ==
    IF n.type = "SUITE" THEN Raise(AttributeError, n)
    ELSE IF ~v THEN Return(n)
    ELSE set_status(n, SKIP)

\* skipped setter
set_skipped(n, v) ==
    IF n.type = "SUITE" THEN Raise(AttributeError, n)
    ELSE IF ~v THEN Raise(ValueError, n)
    ELSE set_status(n, SKIP)

\* not_run setter; TestCase and TestSuite redefine not_run without a setter.
set_not_run(n, v) ==
    IF n.type \in {"SUITE", "TEST"} THEN Raise(AttributeError, n)
    ELSE IF ~v THEN Raise(ValueError, n)
    ELSE set_status(n, NOT_RUN)

----------------------------------------------------------------------------
(* Suite teardown failure *)

Errors == {"E1"}
TeardownFailedNote(error) == <<"parent suite teardown failed", error>>
TeardownSkippedNote(error) == <<"skipped in parent suite teardown", error>>

\* SuiteTeardownFailed(message, skipped).visit_test
SuiteTeardownFailed_visit_test(test, error, skip) ==
    IF stored_passed(test)
    THEN [test EXCEPT !.status = IF skip THEN SKIP ELSE FAIL,
                      !.message = Append(@, IF skip THEN TeardownSkippedNote(error)
                                            ELSE TeardownFailedNote(error))]
    ELSE test

\* suite.visit(SuiteTeardownFailed(message, skipped)): every test of the subtree
SuiteTeardownFailed_visit(s, error, skip) ==
    [u \in Suites |->
        IF u \in Subtree(s)
        THEN [i \in 1..Len(tests[u]) |->
                 SuiteTeardownFailed_visit_test(tests[u][i], error, skip)]
        ELSE tests[u]]

\* A faulty suite_teardown_failed that runs the visitor in its skipping mode.
suite_teardown_failed_Skipping(s, error) == SuiteTeardownFailed_visit(s, error, TRUE)

\* TestSuite.suite_teardown_failed
suite_teardown_failed(s, error) == SuiteTeardownFailed_visit(s, error, FALSE)

\* TestSuite.suite_teardown_skipped
suite_teardown_skipped(s, error) == SuiteTeardownFailed_visit(s, error, TRUE)

----------------------------------------------------------------------------
(* State after construction: a suite tree without tests *)

NoTime == <<>>

\* TestCase(status=st)
TestCase(st) ==
    [type |-> "TEST", status |-> st, message |-> <<>>, tags |-> {},
     starttime |-> NoTime, endtime |-> NoTime, body |-> <<>>]

NoneValue == [type |-> "None"]

\* Keyword(kwname, libname): status 'FAIL', no teardown stored, empty body
Keyword(kwname, libname) ==
    [type |-> "KEYWORD", status |-> FAIL, kwname |-> kwname, libname |-> libname,
     _teardown |-> NoneValue, starttime |-> NoTime, endtime |-> NoTime,
     body |-> <<>>]

\* For(), While(), If(), Try(), their iterations and branches, Return(),
\* Continue(), Break(), Error(): status 'FAIL', empty body
ControlTypes == {"FOR", "WHILE", "ITERATION", "IF/ELSE ROOT", "IF",
                 "TRY/EXCEPT ROOT", "TRY", "RETURN", "CONTINUE", "BREAK", "ERROR"}
Control(type) ==
    [type |-> type, status |-> FAIL, starttime |-> NoTime, endtime |-> NoTime,
     body |-> <<>>]

\* TestSuite(): the attributes a new suite has besides its tests and suites
TestSuite ==
    [doc |-> "", metadata |-> <<>>, starttime |-> NoTime, endtime |-> NoTime,
     setup |-> NoneValue, teardown |-> NoneValue]

Op(op, node, arg, ret, err) ==
    [op |-> op, node |-> node, arg |-> arg, ret |-> ret, err |-> err]

Init ==
    /\ tests = [s \in Suites |-> <<>>]
    /\ attrs = [s \in Suites |-> TestSuite]
    /\ obj = NoneValue
    /\ lastOp = Op("init", NoSuite, "", "", NoError)

RECURSIVE SumLen(_)
SumLen(S) ==
    IF S = {} THEN 0
    ELSE LET s == CHOOSE x \in S : TRUE IN Len(tests[s]) + SumLen(S \ {s})
TotalTests == SumLen(Suites)

RemoveAt(q, i) == SubSeq(q, 1, i - 1) \o SubSeq(q, i + 1, Len(q))

\* suite.tests.create(status=st)
CreateTest(s, st) ==
    /\ TotalTests < MaxTests
    /\ tests' = [tests EXCEPT ![s] = Append(@, TestCase(st))]
    /\ lastOp' = Op("create_test", NoSuite, "", "", NoError)
    /\ UNCHANGED <<attrs, obj>>

\* suite.tests.pop(i - 1): the test leaves the tree
RemoveTest(s, i) ==
    /\ i \in 1..Len(tests[s])
    /\ tests' = [tests EXCEPT ![s] = RemoveAt(@, i)]
    /\ lastOp' = Op("remove_test", NoSuite, "", "", NoError)
    /\ UNCHANGED <<attrs, obj>>

\* suite.tests[i - 1].status = v
AssignTestStatus(s, i, v) ==
    /\ i \in 1..Len(tests[s])
    /\ tests' = [tests EXCEPT ![s][i] = set_status(@, v).node]
    /\ lastOp' = Op("status=", NoSuite, "", "", set_status(tests[s][i], v).err)
    /\ UNCHANGED <<attrs, obj>>

\* A faulty read that hands out the value computed by the previous read.
ReadSuiteStatus_Cached(s) ==
    /\ lastOp' = Op("status", s, "",
                    IF lastOp.op = "status" THEN lastOp.ret ELSE TestSuite_status(s),
                    NoError)
    /\ UNCHANGED <<tests, attrs, obj>>

\* value = suite.status
ReadSuiteStatus(s) ==
    /\ lastOp' = Op("status", s, "", TestSuite_status(s), NoError)
    /\ UNCHANGED <<tests, attrs, obj>>

MessagesFit(s) ==
    \A t \in Range(AllTests(s)) : stored_passed(t) => Len(t.message) < MaxMsgParts

\* suite.suite_teardown_failed(error)
SuiteTeardownFailed(s, error) ==
    /\ MessagesFit(s)
    /\ tests' = suite_teardown_failed(s, error)
    /\ lastOp' = Op("suite_teardown_failed", s, error, "", NoError)
    /\ UNCHANGED <<attrs, obj>>

\* suite.suite_teardown_skipped(message)
SuiteTeardownSkipped(s, error) ==
    /\ MessagesFit(s)
    /\ tests' = suite_teardown_skipped(s, error)
    /\ lastOp' = Op("suite_teardown_skipped", s, error, "", NoError)
    /\ UNCHANGED <<attrs, obj>>

Next ==
    \/ \E s \in Suites, st \in StatusValues : CreateTest(s, st)
    \/ \E s \in Suites, i \in 1..MaxTests : RemoveTest(s, i)
    \/ \E s \in Suites, i \in 1..MaxTests, v \in StatusValues : AssignTestStatus(s, i, v)
    \/ \E s \in Suites : ReadSuiteStatus(s)
    \/ \E s \in Suites, e \in Errors : SuiteTeardownFailed(s, e)

Spec == Init /\ [][Next]_vars

----------------------------------------------------------------------------
(* Nodes held outside the tree: status setters, keyword teardown *)

\* Keyword.name
name(k) ==
    IF k.libname = "" THEN k.kwname ELSE k.libname \o "." \o k.kwname

\* Truth value of a keyword: that of its name.
truth(k) == k.type # "None" /\ name(k) # ""

\* create_fixture(fixture, parent, TEARDOWN): the given keyword as a teardown,
\* an empty one for None.
create_fixture(fixture) ==
    IF fixture = NoneValue THEN [Keyword("", "") EXCEPT !.type = "TEARDOWN"]
    ELSE [fixture EXCEPT !.type = "TEARDOWN"]

\* Keyword.teardown (getter): result and the keyword afterwards
teardown(k) ==
    IF k._teardown = NoneValue /\ truth(k)
    THEN [ret |-> create_fixture(NoneValue),
          node |-> [k EXCEPT !._teardown = create_fixture(NoneValue)]]
    ELSE [ret |-> k._teardown, node |-> k]

\* Keyword.teardown (setter)
set_teardown(k, fixture) == [k EXCEPT !._teardown = create_fixture(fixture)]

\* A faulty has_teardown that asks the teardown getter.
has_teardown_ViaGetter(k) ==
    [ret |-> truth(teardown(k).ret), node |-> teardown(k).node]

\* Keyword.has_teardown: result and the keyword afterwards
has_teardown(k) == [ret |-> truth(k._teardown), node |-> k]

KwNames == {"", "Log"}
LibNames == {"", "BuiltIn"}
SetterNames == {"status", "passed", "failed", "skipped", "not_run"}

\* The setter that the assignment node.<attr> = v reaches.
setattr(n, attr, v) ==
    IF attr = "status" THEN set_status(n, v)
    ELSE IF attr = "passed" THEN set_passed(n, v)
    ELSE IF attr = "failed" THEN set_failed(n, v)
    ELSE IF attr = "skipped" THEN set_skipped(n, v)
    ELSE set_not_run(n, v)

\* Values given to a setter: a status for status, a truth value otherwise.
SetterValues(attr) == IF attr = "status" THEN StatusValues ELSE BOOLEAN

\* obj.<attr> = v
AssignAttr(attr, v) ==
    /\ obj' = setattr(obj, attr, v).node
    /\ lastOp' = Op(attr \o "=", obj.type, v, "", setattr(obj, attr, v).err)
    /\ UNCHANGED <<tests, attrs>>

\* A faulty suite that hands a status assignment down to its tests.
TestSuite_setattr_Propagating(s, attr, v) ==
    [err |-> NoError,
     tests |-> [u \in Suites |->
                  IF u \in Subtree(s)
                  THEN [i \in 1..Len(tests[u]) |-> setattr(tests[u][i], attr, v).node]
                  ELSE tests[u]]]

\* suite.<attr> = v: the error raised and the tests afterwards
TestSuite_setattr(s, attr, v) ==
    [err |-> setattr(SuiteNode(s), attr, v).err, tests |-> tests]

\* suite.<attr> = v
AssignSuiteAttr(s, attr, v) ==
    /\ tests' = TestSuite_setattr(s, attr, v).tests
    /\ lastOp' = Op("suite." \o attr \o "=", s, v, "", TestSuite_setattr(s, attr, v).err)
    /\ UNCHANGED <<attrs, obj>>

\* value = obj.has_teardown
ReadHasTeardown ==
    /\ obj.type = "KEYWORD"
    /\ obj' = has_teardown(obj).node
    /\ lastOp' = Op("has_teardown", obj.type, "", has_teardown(obj).ret, NoError)
    /\ UNCHANGED <<tests, attrs>>

\* value = obj.teardown
ReadTeardown ==
    /\ obj.type = "KEYWORD"
    /\ obj' = teardown(obj).node
    /\ lastOp' = Op("teardown", obj.type, "", teardown(obj).ret, NoError)
    /\ UNCHANGED <<tests, attrs>>

\* obj.teardown = fixture
AssignTeardown(fixture) ==
    /\ obj.type = "KEYWORD"
    /\ obj' = set_teardown(obj, fixture)
    /\ lastOp' = Op("teardown=", obj.type, fixture, "", NoError)
    /\ UNCHANGED <<tests, attrs>>

Fixtures == {NoneValue} \cup {Keyword(k, "") : k \in KwNames}

\* A new node of any kind in the caller's hands.
InitNode ==
    /\ tests = [s \in Suites |-> <<>>]
    /\ attrs = [s \in Suites |-> TestSuite]
    /\ obj \in {TestCase(FAIL)}
                 \cup {Keyword(k, l) : k \in KwNames, l \in LibNames}
                 \cup {Control(t) : t \in ControlTypes}
    /\ lastOp = Op("init", NoSuite, "", "", NoError)

NextNode ==
    \/ \E attr \in SetterNames : \E v \in SetterValues(attr) : AssignAttr(attr, v)
    \/ ReadHasTeardown
    \/ ReadTeardown
    \/ \E fixture \in Fixtures : AssignTeardown(fixture)

SpecNode == InitNode /\ [][NextNode]_vars

\* A built tree with one test in sub1 and one in sub11.
InitSuite ==
    /\ \E a \in StatusValues, b \in StatusValues :
          tests = [s \in Suites |->
                      IF s = "sub1" THEN <<TestCase(a)>>
                      ELSE IF s = "sub11" THEN <<TestCase(b)>>
                      ELSE <<>>]
    /\ attrs = [s \in Suites |-> TestSuite]
    /\ obj = NoneValue
    /\ lastOp = Op("init", NoSuite, "", "", NoError)

NextSuite ==
    \/ \E s \in Suites, attr \in SetterNames :
          \E v \in SetterValues(attr) : AssignSuiteAttr(s, attr, v)
    \/ \E s \in Suites, i \in 1..MaxTests, v \in StatusValues : AssignTestStatus(s, i, v)
    \/ \E s \in Suites, e \in Errors : SuiteTeardownSkipped(s, e)

SpecSuite == InitSuite /\ [][NextSuite]_vars

\* The four status predicates of a node, as read one after the other.
predicates(n) ==
    [passed |-> passed(n), failed |-> failed(n),
     skipped |-> skipped(n), not_run |-> not_run(n)]

\* obj.passed, obj.failed, obj.skipped, obj.not_run
ReadNodePredicates ==
    /\ lastOp' = Op("predicates", obj.type, obj.status, predicates(obj), NoError)
    /\ UNCHANGED <<tests, attrs, obj>>

\* suite.passed, suite.failed, suite.skipped, suite.not_run
ReadSuitePredicates(s) ==
    /\ lastOp' = Op("predicates", "SUITE", s, predicates(SuiteNode(s)), NoError)
    /\ UNCHANGED <<tests, attrs, obj>>

\* A suite tree with a test in sub1 and one in sub11, and a node of any kind
\* outside it.
InitPredicates ==
    /\ \E a \in StatusValues, b \in StatusValues :
          tests = [s \in Suites |->
                      IF s = "sub1" THEN <<TestCase(a)>>
                      ELSE IF s = "sub11" THEN <<TestCase(b)>>
                      ELSE <<>>]
    /\ attrs = [s \in Suites |-> TestSuite]
    /\ obj \in {TestCase(FAIL), Keyword("Log", "BuiltIn")}
                 \cup {Control(t) : t \in ControlTypes}
    /\ lastOp = Op("init", NoSuite, "", "", NoError)

NextPredicates ==
    \/ \E attr \in SetterNames : \E v \in SetterValues(attr) : AssignAttr(attr, v)
    \/ \E s \in Suites, i \in 1..MaxTests, v \in StatusValues : AssignTestStatus(s, i, v)
    \/ ReadNodePredicates
    \/ \E s \in Suites : ReadSuitePredicates(s)

SpecPredicates == InitPredicates /\ [][NextPredicates]_vars

----------------------------------------------------------------------------
(* Elapsed time *)

\* A timestamp <<minute, second, millisecond>> as a number of milliseconds.
Millis(ts) == (ts[1] * 60 + ts[2]) * 1000 + ts[3]

\* get_elapsed_time(start, end): whole milliseconds between two timestamps,
\* 0 when one is missing.
get_elapsed_time(start, end) ==
    IF start = NoTime \/ end = NoTime THEN 0 ELSE Millis(end) - Millis(start)

\* StatusMixin.elapsedtime: tests, keywords and control nodes
StatusMixin_elapsedtime(n) == get_elapsed_time(n.starttime, n.endtime)

\* Elapsed time of suite.setup / suite.teardown; a fixture that was never set
\* reads as an empty keyword.
fixture_elapsedtime(k) ==
    IF k = NoneValue THEN StatusMixin_elapsedtime(Keyword("", ""))
    ELSE StatusMixin_elapsedtime(k)

RECURSIVE SumOver(_, _)
SumOver(q, f) == IF q = <<>> THEN 0 ELSE f[Head(q)] + SumOver(Tail(q), f)

RECURSIVE SumTests(_)
SumTests(q) ==
    IF q = <<>> THEN 0 ELSE StatusMixin_elapsedtime(Head(q)) + SumTests(Tail(q))

\* A faulty elapsedtime that is content with one of the two timestamps.
RECURSIVE TestSuite_elapsedtime_EitherTime(_)
TestSuite_elapsedtime_EitherTime(s) ==
    IF attrs[s].starttime # NoTime \/ attrs[s].endtime # NoTime
    THEN get_elapsed_time(attrs[s].starttime, attrs[s].endtime)
    ELSE SumOver(suites(s), [c \in Range(suites(s)) |-> TestSuite_elapsedtime_EitherTime(c)])
         + SumTests(tests[s])
         + fixture_elapsedtime(attrs[s].setup)
         + fixture_elapsedtime(attrs[s].teardown)

\* TestSuite.elapsedtime
RECURSIVE TestSuite_elapsedtime(_)
TestSuite_elapsedtime(s) ==
    IF attrs[s].starttime # NoTime /\ attrs[s].endtime # NoTime
    THEN get_elapsed_time(attrs[s].starttime, attrs[s].endtime)
    ELSE SumOver(suites(s), [c \in Range(suites(s)) |-> TestSuite_elapsedtime(c)])
         + SumTests(tests[s])
         + fixture_elapsedtime(attrs[s].setup)
         + fixture_elapsedtime(attrs[s].teardown)

T0 == <<0, 0, 0>>
T1 == <<0, 1, 500>>
T2 == <<1, 0, 250>>

\* Timestamps a suite can carry: none, a start only, both.
SuiteTimes == {<<NoTime, NoTime>>, <<T0, NoTime>>, <<T0, T2>>}
\* Timestamps a test can carry: none, an end only, both.
TestTimes == {<<NoTime, NoTime>>, <<NoTime, T1>>, <<T0, T1>>}

Timed(n, times) == [n EXCEPT !.starttime = times[1], !.endtime = times[2]]

\* A built tree: timestamps on suites, a test in sub1 and one in sub11, each
\* with or without a timed keyword in its body, fixtures on the root.
InitTime ==
    /\ \E a \in TestTimes, b \in TestTimes, ka \in BOOLEAN, kb \in BOOLEAN :
          tests = [s \in Suites |->
              IF s = "sub1"
              THEN <<[Timed(TestCase(PASS), a) EXCEPT !.body =
                        IF ka THEN <<Timed(Keyword("Log", ""), <<T0, T1>>)>> ELSE <<>>]>>
              ELSE IF s = "sub11"
              THEN <<[Timed(TestCase(FAIL), b) EXCEPT !.body =
                        IF kb THEN <<Timed(Keyword("Log", ""), <<T1, T2>>)>> ELSE <<>>]>>
              ELSE <<>>]
    /\ \E r \in SuiteTimes, x \in SuiteTimes, y \in SuiteTimes,
          su \in BOOLEAN, td \in BOOLEAN :
          attrs = [s \in Suites |->
              IF s = "root"
              THEN [Timed(TestSuite, r) EXCEPT
                      !.setup = IF su THEN Timed(Keyword("Open", ""), <<T0, T1>>)
                                ELSE NoneValue,
                      !.teardown = IF td THEN Timed(Keyword("Close", ""), <<T1, T2>>)
                                   ELSE NoneValue]
              ELSE IF s = "sub1" THEN Timed(TestSuite, x)
              ELSE IF s = "sub11" THEN Timed(TestSuite, y)
              ELSE TestSuite]
    /\ obj = NoneValue
    /\ lastOp = Op("init", NoSuite, "", "", NoError)

\* value = suite.elapsedtime
ReadElapsedTime(s) ==
    /\ lastOp' = Op("elapsedtime", s, "", TestSuite_elapsedtime(s), NoError)
    /\ UNCHANGED <<tests, attrs, obj>>

NextTime == \E s \in Suites : ReadElapsedTime(s)

SpecTime == InitTime /\ [][NextTime]_vars

----------------------------------------------------------------------------
(* Bodies and the passes over them *)

\* Message(message, level)
Message(text, lvl) == [type |-> "MESSAGE", level |-> lvl, message |-> text]

WithBody(n, items) == [n EXCEPT !.body = items]
WithStatus(n, st) == [n EXCEPT !.status = st]

Levels == {"TRACE", "DEBUG", "INFO", "WARN", "ERROR"}
LevelRank ==
    [l \in Levels \cup {"NONE"} |->
        IF l = "TRACE" THEN 0 ELSE IF l = "DEBUG" THEN 1 ELSE IF l = "INFO" THEN 2
        ELSE IF l = "WARN" THEN 3 ELSE IF l = "ERROR" THEN 4 ELSE 5]

\* MessageFilter: is a message of this level kept under the threshold
is_logged(lvl, threshold) == LevelRank[lvl] >= LevelRank[threshold]

\* MessageFilter over a body: messages below the threshold are removed, every
\* other item is kept and its own body (and teardown) visited.
RECURSIVE MessageFilter_body(_, _)
MessageFilter_item(n, threshold) ==
    IF n.type = "None" THEN n
    ELSE IF n.type \in {"KEYWORD", "SETUP", "TEARDOWN"}
    THEN [n EXCEPT !.body = MessageFilter_body(n.body, threshold),
                   !._teardown = IF @ = NoneValue THEN @
                                 ELSE [@ EXCEPT !.body =
                                         MessageFilter_body(@.body, threshold)]]
    ELSE [n EXCEPT !.body = MessageFilter_body(n.body, threshold)]
MessageFilter_body(items, threshold) ==
    IF items = <<>> THEN <<>>
    ELSE LET h == Head(items)
             rest == MessageFilter_body(Tail(items), threshold)
         IN IF h.type = "MESSAGE"
            THEN (IF is_logged(h.level, threshold) THEN <<h>> ELSE <<>>) \o rest
            ELSE <<MessageFilter_item(h, threshold)>> \o rest

\* MessageFilter(log_level) visiting suite s of the tree (tv, av): tests and
\* fixtures of the subtree
MessageFilter_on(tv, av, s, log_level) ==
    [tests |-> [u \in Suites |->
                  IF u \in Subtree(s)
                  THEN [i \in 1..Len(tv[u]) |-> MessageFilter_item(tv[u][i], log_level)]
                  ELSE tv[u]],
     attrs |-> [u \in Suites |->
                  IF u \in Subtree(s)
                  THEN [av[u] EXCEPT
                          !.setup = MessageFilter_item(@, log_level),
                          !.teardown = MessageFilter_item(@, log_level)]
                  ELSE av[u]]]

\* suite.visit(MessageFilter(log_level))
MessageFilter_visit(s, log_level) == MessageFilter_on(tests, attrs, s, log_level)

\* A faulty filter_messages that does not hand its argument on.
filter_messages_DefaultLevel(s, log_level) == MessageFilter_visit(s, "TRACE")

\* TestSuite.filter_messages
filter_messages(s, log_level) == MessageFilter_visit(s, log_level)

\* suite.filter_messages(log_level)
FilterMessages(s, log_level) ==
    /\ tests' = filter_messages(s, log_level).tests
    /\ attrs' = filter_messages(s, log_level).attrs
    /\ lastOp' = Op("filter_messages", s, log_level, "", NoError)
    /\ UNCHANGED obj

\* A built tree: tests with keywords, a FOR loop and messages in sub1, sub11
\* and sub2, a setup keyword on sub1.
SampleTests(a, b, ka, l1, l2) ==
    [s \in Suites |->
        IF s = "sub1" THEN
          <<[TestCase(a) EXCEPT !.tags = {"smoke"}, !.body =
              << Message("t1", l1),
                 WithBody(WithStatus(Keyword("Log", "BuiltIn"), ka),
                   << Message("m1", l2),
                      WithBody(WithStatus(Keyword("Inner", ""), PASS),
                               <<Message("m2", "INFO")>>),
                      Message("m3", "WARN") >>) >>]>>
        ELSE IF s = "sub11" THEN
          <<[TestCase(b) EXCEPT !.body =
              << WithBody(WithStatus(Control("FOR"), b),
                   << WithBody(WithStatus(Control("ITERATION"), b),
                        << Message("m4", "DEBUG"),
                           WithBody(WithStatus(Keyword("Step", ""), b),
                                    <<Message("m5", "ERROR")>>) >>) >>),
                 WithBody(WithStatus(Timed(Keyword("Last", ""), <<T1, T2>>), PASS),
                          <<Message("m6", "TRACE")>>) >>]>>
        ELSE IF s = "sub2" THEN
          <<[TestCase(PASS) EXCEPT !.tags = {"smoke"}, !.body =
              << WithBody(WithStatus(Keyword("Other", ""), PASS),
                          <<Message("m7", "INFO")>>) >>]>>
        ELSE <<>>]

SampleAttrs ==
    [s \in Suites |->
        IF s = "sub1"
        THEN [TestSuite EXCEPT !.setup =
                [WithBody(WithStatus(Timed(Keyword("Open", ""), <<T0, T1>>), PASS),
                          <<Message("m8", "DEBUG")>>) EXCEPT !.type = "SETUP"]]
        ELSE TestSuite]

InitFilter ==
    /\ \E l1 \in Levels, l2 \in Levels : tests = SampleTests(PASS, FAIL, PASS, l1, l2)
    /\ attrs = SampleAttrs
    /\ obj = NoneValue
    /\ lastOp = Op("init", NoSuite, "", "", NoError)

NextFilter ==
    \E s \in Suites, lvl \in Levels \cup {"NONE"} : FilterMessages(s, lvl)

SpecFilter == InitFilter /\ [][NextFilter]_vars

\* KeywordRemover: a keyword or control node stripped of its body contents;
\* name, status and timestamps stay.
clear_content(n) ==
    IF n.type \in {"MESSAGE", "None"} THEN n
    ELSE IF n.type \in {"KEYWORD", "SETUP", "TEARDOWN"}
    THEN [n EXCEPT !.body = <<>>,
                   !._teardown = IF @ = NoneValue THEN @ ELSE [@ EXCEPT !.body = <<>>]]
    ELSE [n EXCEPT !.body = <<>>]

Policies == {"ALL", "PASSED"}

\* KeywordRemover(how) on a test: ALL strips every item of the test's body,
\* PASSED does so when the test's own status is PASS.
KeywordRemover_visit_test(test, how) ==
    IF how = "ALL" \/ (how = "PASSED" /\ stored_passed(test))
    THEN [test EXCEPT !.body = [i \in 1..Len(test.body) |-> clear_content(test.body[i])]]
    ELSE test

\* KeywordRemover(how) on a suite fixture
KeywordRemover_visit_fixture(k, how) ==
    IF k = NoneValue THEN k
    ELSE IF how = "ALL" \/ (how = "PASSED" /\ stored_passed(k)) THEN clear_content(k)
    ELSE k

\* KeywordRemover(how) visiting suite s of the tree (tv, av): tests and
\* fixtures of the subtree
KeywordRemover_on(tv, av, s, how) ==
    [tests |-> [u \in Suites |->
                  IF u \in Subtree(s)
                  THEN [i \in 1..Len(tv[u]) |-> KeywordRemover_visit_test(tv[u][i], how)]
                  ELSE tv[u]],
     attrs |-> [u \in Suites |->
                  IF u \in Subtree(s)
                  THEN [av[u] EXCEPT
                          !.setup = KeywordRemover_visit_fixture(@, how),
                          !.teardown = KeywordRemover_visit_fixture(@, how)]
                  ELSE av[u]]]

\* suite.visit(KeywordRemover(how))
KeywordRemover_visit(s, how) == KeywordRemover_on(tests, attrs, s, how)

\* A faulty remove_keywords that spares whatever did not pass.
remove_keywords_AlwaysPassed(s, how) == KeywordRemover_visit(s, "PASSED")

\* A faulty remove_keywords that removes everything whatever it is asked.
remove_keywords_AlwaysAll(s, how) == KeywordRemover_visit(s, "ALL")

\* TestSuite.remove_keywords
remove_keywords(s, how) == KeywordRemover_visit(s, how)

\* suite.remove_keywords(how)
RemoveKeywords(s, how) ==
    /\ tests' = remove_keywords(s, how).tests
    /\ attrs' = remove_keywords(s, how).attrs
    /\ lastOp' = Op("remove_keywords", s, how, "", NoError)
    /\ UNCHANGED obj

InitRemove ==
    /\ \E a \in StatusValues, b \in StatusValues, ka \in {PASS, FAIL} :
          tests = SampleTests(a, b, ka, "INFO", "WARN")
    /\ attrs = SampleAttrs
    /\ obj = NoneValue
    /\ lastOp = Op("init", NoSuite, "", "", NoError)

NextRemove ==
    \/ \E s \in Suites, how \in Policies : RemoveKeywords(s, how)
    \/ \E s \in Suites, i \in 1..MaxTests, v \in {PASS, FAIL} : AssignTestStatus(s, i, v)

SpecRemove == InitRemove /\ [][NextRemove]_vars

----------------------------------------------------------------------------
(* Suite configuration *)

NotRootError == "NotRootError"
BadOptionError == "BadOptionError"
Unset == "<unset>"

NoOptions ==
    [doc |-> Unset, metadata |-> <<>>, remove_keywords |-> Unset,
     log_level |-> Unset, include_tags |-> {}, unknown |-> FALSE]

\* The option batches given to configure: none, each option alone, all at once,
\* and one with a name that is no option.
Options ==
    {NoOptions,
     [NoOptions EXCEPT !.doc = "Smoke test results."],
     [NoOptions EXCEPT !.metadata = <<"Version", "2">>],
     [NoOptions EXCEPT !.remove_keywords = "PASSED"],
     [NoOptions EXCEPT !.remove_keywords = "ALL"],
     [NoOptions EXCEPT !.log_level = "WARN"],
     [NoOptions EXCEPT !.include_tags = {"smoke"}],
     [NoOptions EXCEPT !.unknown = TRUE],
     [doc |-> "Smoke test results.", metadata |-> <<"Version", "2">>,
      remove_keywords |-> "ALL", log_level |-> "WARN", include_tags |-> {"smoke"},
      unknown |-> FALSE]}

\* Metadata with the entry set: an existing key is overridden, a new one added.
SetMetadata(md, entry) ==
    IF \E i \in 1..Len(md) : md[i][1] = entry[1]
    THEN [i \in 1..Len(md) |-> IF md[i][1] = entry[1] THEN entry ELSE md[i]]
    ELSE Append(md, entry)

HasIncludedTag(test) == test.tags \cap {"smoke"} # {}

\* Tests of the subtree of s selected by tag.
SelectTests(tv, s, include_tags) ==
    IF include_tags = {} THEN tv
    ELSE [u \in Suites |->
            IF u \in Subtree(s) THEN SelectSeq(tv[u], HasIncludedTag) ELSE tv[u]]

\* suite.visit(SuiteConfigurer(**options)): attributes, test selection, keyword
\* removal, message filtering
SuiteConfigurer_visit(s, options) ==
    LET av1 == [attrs EXCEPT
                  ![s].doc = IF options.doc = Unset THEN @ ELSE options.doc,
                  ![s].metadata = IF options.metadata = <<>> THEN @
                                  ELSE SetMetadata(@, options.metadata)]
        tv1 == SelectTests(tests, s, options.include_tags)
        r2 == IF options.remove_keywords = Unset THEN [tests |-> tv1, attrs |-> av1]
              ELSE KeywordRemover_on(tv1, av1, s, options.remove_keywords)
    IN IF options.log_level = Unset THEN r2
       ELSE MessageFilter_on(r2.tests, r2.attrs, s, options.log_level)

\* model.TestSuite.configure(): the call is allowed on the root suite only
configure_allowed(s) == parent(s) = NoSuite

\* A faulty configure that skips the validation of the call.
configure_Unchecked(s, options) ==
    IF options.unknown
    THEN [err |-> BadOptionError, tests |-> tests, attrs |-> attrs]
    ELSE [err |-> NoError,
          tests |-> SuiteConfigurer_visit(s, options).tests,
          attrs |-> SuiteConfigurer_visit(s, options).attrs]

\* TestSuite.configure: the parent class validates the call, then the suite is
\* visited with SuiteConfigurer(**options), whose construction rejects a name
\* that is no option.
configure(s, options) ==
    IF ~configure_allowed(s)
    THEN [err |-> NotRootError, tests |-> tests, attrs |-> attrs]
    ELSE IF options.unknown
    THEN [err |-> BadOptionError, tests |-> tests, attrs |-> attrs]
    ELSE [err |-> NoError,
          tests |-> SuiteConfigurer_visit(s, options).tests,
          attrs |-> SuiteConfigurer_visit(s, options).attrs]

\* suite.configure(**options)
Configure(s, options) ==
    /\ tests' = configure(s, options).tests
    /\ attrs' = configure(s, options).attrs
    /\ lastOp' = Op("configure", s, options, "", configure(s, options).err)
    /\ UNCHANGED obj

InitConfigure ==
    /\ \E a \in {PASS, FAIL}, l1 \in {"INFO", "ERROR"} :
          tests = SampleTests(a, FAIL, PASS, l1, "DEBUG")
    /\ attrs = SampleAttrs
    /\ obj = NoneValue
    /\ lastOp = Op("init", NoSuite, "", "", NoError)

NextConfigure == \E s \in Suites, options \in Options : Configure(s, options)

SpecConfigure == InitConfigure /\ [][NextConfigure]_vars

----------------------------------------------------------------------------
(* Parent references: loops and their iterations as objects with identity.
   In SpecBody obj is the heap: obj[n] is the object with identity n, or
   NoneValue while n is not constructed. *)

NodeIds == 1..MaxNodes
NoParent == 0

\* For.__init__: a loop with no iterations yet
For(parentArg) == [type |-> "FOR", parent |-> parentArg, body |-> <<>>]

\* ForIteration.__init__: self.parent = parent, self.body = None
ForIteration(parentArg) == [type |-> "ITERATION", parent |-> parentArg, body |-> <<>>]

Constructed(heap) == {n \in NodeIds : heap[n] # NoneValue}
Loops(heap) == {n \in Constructed(heap) : heap[n].type = "FOR"}
IterationsOf(heap) == {n \in Constructed(heap) : heap[n].type = "ITERATION"}

\* The identity the next constructed object gets.
NewId(heap) == CHOOSE n \in NodeIds \ Constructed(heap) :
                  \A m \in NodeIds \ Constructed(heap) : n <= m

\* A container's items without the given ones.
Without(q, S) ==
    LET Kept(x) == x \notin S IN SelectSeq(q, Kept)

\* BaseBody(parent, items): the container of owner holds the items and each
\* item's parent is set to owner.  A container owns its items exclusively: an
\* item that another container held has left it.
BaseBody_init(heap, owner, items) ==
    [n \in NodeIds |->
        IF n = owner THEN [heap[n] EXCEPT !.body = items]
        ELSE IF n \in Range(items) THEN [heap[n] EXCEPT !.parent = owner]
        ELSE IF heap[n] = NoneValue THEN heap[n]
        ELSE [heap[n] EXCEPT !.body = Without(@, Range(items))]]

\* BaseBody.append(item): the item's parent is set and the item added at the
\* end, in one call.
BaseBody_append(heap, owner, item) ==
    [n \in NodeIds |->
        IF n = owner THEN [heap[n] EXCEPT !.body = Append(Without(@, {item}), item)]
        ELSE IF n = item THEN [heap[n] EXCEPT !.parent = owner]
        ELSE IF heap[n] = NoneValue THEN heap[n]
        ELSE [heap[n] EXCEPT !.body = Without(@, {item})]]

\* Iterations.create_iteration(*args, **kwargs):
\* self.append(self.iteration_class(*args, **kwargs))
create_iteration(heap, loop, parentArg) ==
    BaseBody_append([heap EXCEPT ![NewId(heap)] = ForIteration(parentArg)],
                    loop, NewId(heap))

\* A faulty body setter that stores the list it is given as it is.
For_body_Stored(heap, loop, iterations) ==
    [heap EXCEPT ![loop].body = iterations]

\* For.body setter: Iterations(self.iteration_class, self, iterations)
For_body(heap, loop, iterations) == BaseBody_init(heap, loop, iterations)

\* Lists of up to two distinct objects.
Lists ==
    {<<>>} \cup {<<a>> : a \in NodeIds} \cup {q \in NodeIds \X NodeIds : q[1] # q[2]}

\* Lists of constructed iterations, as a caller can pass them.
ItemLists(heap) == {q \in Lists : Range(q) \subseteq IterationsOf(heap)}

\* iteration = ForIteration(parent=parentArg)
NewIteration(parentArg) ==
    /\ Constructed(obj) # NodeIds
    /\ obj' = [obj EXCEPT ![NewId(obj)] = ForIteration(parentArg)]
    /\ lastOp' = Op("ForIteration", NewId(obj), parentArg, NewId(obj), NoError)
    /\ UNCHANGED <<tests, attrs>>

\* iteration = loop.body.create_iteration(parent=parentArg)
CreateIteration(loop, parentArg) ==
    /\ loop \in Loops(obj)
    /\ Constructed(obj) # NodeIds
    /\ obj' = create_iteration(obj, loop, parentArg)
    /\ lastOp' = Op("create_iteration", loop, parentArg, NewId(obj), NoError)
    /\ UNCHANGED <<tests, attrs>>

\* loop.body = iterations
AssignBody(loop, iterations) ==
    /\ loop \in Loops(obj)
    /\ iterations \in ItemLists(obj)
    /\ obj' = For_body(obj, loop, iterations)
    /\ lastOp' = Op("body=", loop, iterations, "", NoError)
    /\ UNCHANGED <<tests, attrs>>

\* Two loops without iterations.
InitBody ==
    /\ tests = [s \in Suites |-> <<>>]
    /\ attrs = [s \in Suites |-> TestSuite]
    /\ obj = [n \in NodeIds |-> IF n \in {1, 2} THEN For(NoParent) ELSE NoneValue]
    /\ lastOp = Op("init", NoSuite, "", "", NoError)

NextBody ==
    \/ \E p \in NodeIds \cup {NoParent} : NewIteration(p)
    \/ \E loop \in NodeIds, p \in NodeIds \cup {NoParent} : CreateIteration(loop, p)
    \/ \E loop \in NodeIds, q \in Lists : AssignBody(loop, q)

SpecBody == InitBody /\ [][NextBody]_vars

----------------------------------------------------------------------------
(* Visiting.  In SpecVisit obj is a traversal in progress: the node visited,
   the stack of visit calls that have not returned, each with the number of
   children it has handed to the visitor, and the hooks called so far. *)

\* A node by its class and the items of its body.
Item(class, items) == [class |-> class, body |-> items]

\* ForIteration.visit: visitor.visit_for_iteration(self)
ForIteration_visit == "for_iteration"

\* A faulty WhileIteration.visit, copied from ForIteration and not adapted.
WhileIteration_visit_AsFor == "for_iteration"

\* WhileIteration.visit: visitor.visit_while_iteration(self)
WhileIteration_visit == "while_iteration"

\* The visit methods of the classes of robot.model: the visitor's method for
\* the kind.
model_visit(class) ==
    CASE class = "TestCase" -> "test"
      [] class = "Keyword" -> "keyword"
      [] class = "For" -> "for"
      [] class = "While" -> "while"
      [] class = "If" -> "if"
      [] class = "IfBranch" -> "if_branch"
      [] class = "Message" -> "message"

\* node.visit(visitor): the visitor method the node calls
visit(node) ==
    IF node.class = "ForIteration" THEN ForIteration_visit
    ELSE IF node.class = "WhileIteration" THEN WhileIteration_visit
    ELSE model_visit(node.class)

\* The node at a path of body positions below root.
RECURSIVE NodeAt(_, _)
NodeAt(root, path) ==
    IF path = <<>> THEN root ELSE NodeAt(root.body[Head(path)], Tail(path))

Hook(when, kind, path) == [hook |-> when \o "_" \o kind, path |-> path]

\* Bodies an iteration or branch can have.
SampleBodies ==
    {<<>>,
     <<Item("Message", <<>>)>>,
     <<Item("Keyword", <<Item("Message", <<>>)>>), Item("Message", <<>>)>>}

\* A test with a FOR loop of two iterations, then a WHILE loop of one iteration
\* or an IF with one branch, then a keyword.
SampleTrees ==
    {Item("TestCase",
        << Item("For", <<Item("ForIteration", b1), Item("ForIteration", b2)>>),
           IF w THEN Item("While", <<Item("WhileIteration", b3)>>)
                ELSE Item("If", <<Item("IfBranch", b3)>>),
           Item("Keyword", <<>>) >>) :
        b1 \in SampleBodies, b2 \in SampleBodies, b3 \in SampleBodies, w \in BOOLEAN}

\* root.visit(visitor): visit_<kind> of a visitor that overrides nothing calls
\* start_<kind>
StartVisit ==
    /\ obj.stack = <<>> /\ obj.hooks = <<>>
    /\ obj' = [obj EXCEPT
                 !.stack = <<[path |-> <<>>, done |-> 0]>>,
                 !.hooks = <<Hook("start", visit(obj.root), <<>>)>>]
    /\ lastOp' = Op("start_" \o visit(obj.root), <<>>, "", "", NoError)
    /\ UNCHANGED <<tests, attrs>>

\* node.body.visit(visitor): the next item of the body is visited, which calls
\* its start hook
VisitChild ==
    /\ obj.stack # <<>>
    /\ LET top == obj.stack[Len(obj.stack)]
           node == NodeAt(obj.root, top.path)
           path == Append(top.path, top.done + 1)
       IN /\ top.done < Len(node.body)
          /\ obj' = [obj EXCEPT
                       !.stack = Append([@ EXCEPT ![Len(@)].done = top.done + 1],
                                        [path |-> path, done |-> 0]),
                       !.hooks = Append(@, Hook("start", visit(node.body[top.done + 1]), path))]
          /\ lastOp' = Op("start_" \o visit(node.body[top.done + 1]), path, "", "", NoError)
    /\ UNCHANGED <<tests, attrs>>

\* end_<kind> once the body has been visited; visit_<kind> returns
EndVisit ==
    /\ obj.stack # <<>>
    /\ LET top == obj.stack[Len(obj.stack)]
           node == NodeAt(obj.root, top.path)
       IN /\ top.done = Len(node.body)
          /\ obj' = [obj EXCEPT
                       !.stack = SubSeq(@, 1, Len(@) - 1),
                       !.hooks = Append(@, Hook("end", visit(node), top.path))]
          /\ lastOp' = Op("end_" \o visit(node), top.path, "", "", NoError)
    /\ UNCHANGED <<tests, attrs>>

InitVisit ==
    /\ tests = [s \in Suites |-> <<>>]
    /\ attrs = [s \in Suites |-> TestSuite]
    /\ \E root \in SampleTrees : obj = [root |-> root, stack |-> <<>>, hooks |-> <<>>]
    /\ lastOp = Op("init", NoSuite, "", "", NoError)

NextVisit == StartVisit \/ VisitChild \/ EndVisit

SpecVisit == InitVisit /\ [][NextVisit]_vars

----------------------------------------------------------------------------
(* Properties *)

\* The tests of the subtree of s, as a set of (suite, position) pairs.
SubtreeTests(s) == {<<u, i>> \in Suites \X (1..MaxTests) :
                       u \in Subtree(s) /\ i <= Len(tests[u])}
TestAt(p) == tests[p[1]][p[2]]

\* The status the tests of the subtree call for.
DerivedStatus(s) ==
    IF \E p \in SubtreeTests(s) : TestAt(p).status = FAIL THEN FAIL
    ELSE IF \E p \in SubtreeTests(s) : TestAt(p).status = PASS THEN PASS
    ELSE SKIP

\* C1: a suite's status is FAIL if a test anywhere in its subtree failed, else
\* PASS if one passed, else SKIP (no tests, or only skipped / not-run tests).
C1_SuiteStatus == \A s \in Suites : TestSuite_status(s) = DerivedStatus(s)

\* C1 witness: the root holds no test of its own, a nested suite holds a failed
\* and a passed test, and the root reads FAIL.
C1_Witness ==
    /\ tests["root"] = <<>> /\ tests["sub1"] = <<>>
    /\ \E i, j \in 1..Len(tests["sub11"]) :
          tests["sub11"][i].status = FAIL /\ tests["sub11"][j].status = PASS
    /\ TestSuite_status("root") = FAIL

\* C2: the value a read of suite.status returns is the aggregation of the tests
\* that are in the subtree at the time of the read, whatever happened before.
C2_StatusNotCached ==
    lastOp.op = "status" => lastOp.ret = DerivedStatus(lastOp.node)

\* C2 witness: the root's status is read as FAIL after a teardown-failure pass has
\* rewritten a test of the subtree.
C2_Witness ==
    /\ lastOp.op = "status" /\ lastOp.node = "root" /\ lastOp.ret = FAIL
    /\ \E p \in SubtreeTests("root") :
          TestAt(p).status = FAIL /\ TestAt(p).message # <<>>

\* C3: suite_teardown_failed(error) on a suite turns every passed test of the
\* suite's subtree into a failed one and extends its message with a text about
\* the teardown failure; tests of suites outside the subtree are unchanged.
C3_TeardownFailed ==
    [][lastOp'.op = "suite_teardown_failed" =>
        \A u \in Suites :
            /\ Len(tests'[u]) = Len(tests[u])
            /\ \A i \in 1..Len(tests[u]) :
                  /\ (u \in Subtree(lastOp'.node) /\ tests[u][i].status = PASS) =>
                        /\ tests'[u][i].status = FAIL
                        /\ Len(tests'[u][i].message) = Len(tests[u][i].message) + 1
                        /\ SubSeq(tests'[u][i].message, 1, Len(tests[u][i].message))
                              = tests[u][i].message
                        /\ tests'[u][i].message[Len(tests'[u][i].message)]
                              = TeardownFailedNote(lastOp'.arg)
                  /\ u \notin Subtree(lastOp'.node) =>
                        tests'[u][i].status = tests[u][i].status]_vars

\* C3 witness: after suite_teardown_failed on sub1 a test of the nested suite
\* sub11 is failed with the teardown text while a test outside sub1 still passes.
C3_Witness ==
    /\ lastOp.op = "suite_teardown_failed" /\ lastOp.node = "sub1"
    /\ \E i \in 1..Len(tests["sub11"]) :
          /\ tests["sub11"][i].status = FAIL
          /\ tests["sub11"][i].message = <<TeardownFailedNote(lastOp.arg)>>
    /\ \E i \in 1..Len(tests["sub2"]) : tests["sub2"][i].status = PASS

\* C4 as stated: on every node that stores a status, a true value given to
\* skipped / not_run sets SKIP / NOT RUN, a false value raises a value error
\* and leaves the node as it was.
C4_Original ==
    [][lastOp'.op \in {"skipped=", "not_run="} =>
        IF lastOp'.arg
        THEN /\ lastOp'.err = NoError
             /\ obj'.status = IF lastOp'.op = "skipped=" THEN SKIP ELSE NOT_RUN
        ELSE /\ lastOp'.err = ValueError
             /\ obj' = obj]_vars

\* C4 amended: as stated for skipped on every node and for not_run on every
\* node but a test; on a test not_run cannot be assigned: any value raises an
\* attribute error and the status stays as it was.
C4_Setters ==
    [][lastOp'.op \in {"skipped=", "not_run="} =>
        IF lastOp'.op = "not_run=" /\ obj.type = "TEST"
        THEN /\ lastOp'.err = AttributeError
             /\ obj' = obj
        ELSE IF lastOp'.arg
        THEN /\ lastOp'.err = NoError
             /\ obj'.status = IF lastOp'.op = "skipped=" THEN SKIP ELSE NOT_RUN
        ELSE /\ lastOp'.err = ValueError
             /\ obj' = obj]_vars

\* C4 witness: not_run = True was assigned on a test that carries the status
\* PASS; the assignment raised and the status is still PASS.
C4_Witness ==
    /\ lastOp.op = "not_run=" /\ lastOp.arg = TRUE /\ lastOp.node = "TEST"
    /\ lastOp.err = AttributeError
    /\ obj.type = "TEST" /\ obj.status = PASS

SuiteAssignOps == {"suite." \o attr \o "=" : attr \in SetterNames}

\* C5: assigning status, passed, failed, skipped or not_run on a suite raises
\* an error and leaves every test, and so every derived suite status, unchanged.
C5_SuiteStatusReadOnly ==
    [][lastOp'.op \in SuiteAssignOps =>
        /\ lastOp'.err # NoError
        /\ tests' = tests
        /\ \A s \in Suites : TestSuite_status(s)' = TestSuite_status(s)]_vars

\* C5 witness: passed = True was assigned on sub1, whose own test failed; the
\* assignment raised and sub1 still reads FAIL.
C5_Witness ==
    /\ lastOp.op = "suite.passed=" /\ lastOp.node = "sub1" /\ lastOp.arg = TRUE
    /\ lastOp.err = AttributeError
    /\ tests["sub1"][1].status = FAIL
    /\ TestSuite_status("sub1") = FAIL

\* C8: reading has_teardown leaves the keyword as it was and returns false when
\* no teardown is stored; a stored teardown appears only through reading or
\* assigning the teardown attribute.
C8_HasTeardown ==
    [][/\ lastOp'.op = "has_teardown" =>
            /\ obj' = obj
            /\ obj._teardown = NoneValue => lastOp'.ret = FALSE
       /\ (obj.type = "KEYWORD" /\ obj._teardown = NoneValue
             /\ obj'._teardown # NoneValue) =>
            lastOp'.op \in {"teardown", "teardown="}]_vars

\* C8 witness: has_teardown was read on a named keyword, returned false, and
\* the keyword still stores no teardown.
C8_Witness ==
    /\ lastOp.op = "has_teardown" /\ lastOp.ret = FALSE
    /\ obj.type = "KEYWORD" /\ truth(obj) /\ obj._teardown = NoneValue

HasBothTimes(n) == n.starttime # NoTime /\ n.endtime # NoTime
TimeDiff(n) == Millis(n.endtime) - Millis(n.starttime)

\* The rule of C7 applied to a test or keyword: the timestamps' difference when
\* both are present, else the sum over its children.
RECURSIVE ClaimedNodeTime(_)
ClaimedNodeTime(n) ==
    LET RECURSIVE Sum(_)
        Sum(q) == IF q = <<>> THEN 0 ELSE ClaimedNodeTime(Head(q)) + Sum(Tail(q))
    IN IF n = NoneValue THEN 0
       ELSE IF HasBothTimes(n) THEN TimeDiff(n)
       ELSE Sum(n.body)

\* The rule of C7 applied to a suite.
RECURSIVE ClaimedSuiteTime(_)
ClaimedSuiteTime(s) ==
    LET RECURSIVE SumSuites(_)
        SumSuites(q) ==
            IF q = <<>> THEN 0 ELSE ClaimedSuiteTime(Head(q)) + SumSuites(Tail(q))
        RECURSIVE SumNodes(_)
        SumNodes(q) ==
            IF q = <<>> THEN 0 ELSE ClaimedNodeTime(Head(q)) + SumNodes(Tail(q))
    IN IF HasBothTimes(attrs[s]) THEN TimeDiff(attrs[s])
       ELSE SumSuites(suites(s)) + SumNodes(tests[s])
            + ClaimedNodeTime(attrs[s].setup) + ClaimedNodeTime(attrs[s].teardown)

\* C7 as stated: a suite's elapsedtime is endtime - starttime when it has both
\* timestamps, else the sum over child suites, tests, setup and teardown, each
\* of them computed by the same rule.
C7_Original ==
    lastOp.op = "elapsedtime" => lastOp.ret = ClaimedSuiteTime(lastOp.node)

\* What a test, setup or teardown contributes: its own timestamps' difference,
\* 0 when one of them is absent.
OwnTime(n) == IF n # NoneValue /\ HasBothTimes(n) THEN TimeDiff(n) ELSE 0

RECURSIVE AmendedSuiteTime(_)
AmendedSuiteTime(s) ==
    LET RECURSIVE SumSuites(_)
        SumSuites(q) ==
            IF q = <<>> THEN 0 ELSE AmendedSuiteTime(Head(q)) + SumSuites(Tail(q))
        RECURSIVE SumNodes(_)
        SumNodes(q) == IF q = <<>> THEN 0 ELSE OwnTime(Head(q)) + SumNodes(Tail(q))
    IN IF HasBothTimes(attrs[s]) THEN TimeDiff(attrs[s])
       ELSE SumSuites(suites(s)) + SumNodes(tests[s])
            + OwnTime(attrs[s].setup) + OwnTime(attrs[s].teardown)

\* C7 amended: a suite's elapsedtime is endtime - starttime when it has both
\* timestamps, else the sum over child suites (same rule), tests, setup and
\* teardown, where a test, setup or teardown counts with its own timestamps'
\* difference, or 0 when one is absent, whatever it contains.
C7_ElapsedTime ==
    lastOp.op = "elapsedtime" => lastOp.ret = AmendedSuiteTime(lastOp.node)

\* C7 witness: the root has a start time only; its elapsedtime is read as the
\* sum of sub1 (both timestamps: 60250) and the root's setup (1500), while the
\* test of sub1 has no timestamps and a timed keyword in its body.
C7_Witness ==
    /\ lastOp.op = "elapsedtime" /\ lastOp.node = "root" /\ lastOp.ret = 61750
    /\ attrs["root"].starttime # NoTime /\ attrs["root"].endtime = NoTime
    /\ attrs["root"].setup # NoneValue /\ attrs["root"].teardown = NoneValue
    /\ HasBothTimes(attrs["sub1"])
    /\ tests["sub1"][1].starttime = NoTime /\ tests["sub1"][1].body # <<>>

\* The messages found in a body and below it, in document order.
RECURSIVE AllMessages(_)
AllMessages(items) ==
    IF items = <<>> THEN <<>>
    ELSE LET h == Head(items)
         IN (IF h.type = "MESSAGE" THEN <<h>> ELSE AllMessages(h.body))
            \o AllMessages(Tail(items))

\* A body without its messages, at every depth.
RECURSIVE NonMessages(_)
NonMessages(items) ==
    IF items = <<>> THEN <<>>
    ELSE LET h == Head(items)
         IN (IF h.type = "MESSAGE" THEN <<>>
             ELSE <<[h EXCEPT !.body = NonMessages(h.body)]>>)
            \o NonMessages(Tail(items))

\* The tests and fixtures a suite holds itself.
OwnNodes(tv, av, u) ==
    tv[u] \o (IF av[u].setup = NoneValue THEN <<>> ELSE <<av[u].setup>>)
          \o (IF av[u].teardown = NoneValue THEN <<>> ELSE <<av[u].teardown>>)

IsWarnOrError(m) == m.level \in {"WARN", "ERROR"}

\* C9: after filter_messages on a suite, the non-message items of every body in
\* its subtree are the same nodes in the same order; with threshold WARN no
\* TRACE, DEBUG or INFO message is left there and the WARN and ERROR messages
\* are the ones that were there; with threshold NONE no message is left.
C9_FilterMessages ==
    [][lastOp'.op = "filter_messages" =>
        \A u \in Subtree(lastOp'.node) :
            LET before == OwnNodes(tests, attrs, u)
                after == OwnNodes(tests', attrs', u)
            IN /\ NonMessages(after) = NonMessages(before)
               /\ lastOp'.arg = "WARN" =>
                     /\ \A m \in Range(AllMessages(after)) : IsWarnOrError(m)
                     /\ AllMessages(after) = SelectSeq(AllMessages(before), IsWarnOrError)
               /\ lastOp'.arg = "NONE" => AllMessages(after) = <<>>]_vars

\* C9 witness: filter_messages('WARN') ran on the root; the test of sub1 keeps
\* its ERROR and WARN messages and both of its keywords, the INFO and DEBUG
\* messages it was built with are gone.
C9_Witness ==
    /\ lastOp.op = "filter_messages" /\ lastOp.arg = "WARN" /\ lastOp.node = "root"
    /\ AllMessages(tests["sub1"][1].body)
          = <<Message("t1", "ERROR"), Message("m3", "WARN")>>
    /\ Len(tests["sub1"][1].body[2].body) = 2
    /\ tests["sub1"][1].body[2].body[1].kwname = "Inner"

IsKeyword(n) == n.type = "KEYWORD"

\* C10: after remove_keywords('PASSED') on a suite, in its subtree the keywords
\* of every test that was FAIL have the body contents they had, the keywords of
\* every test that was PASS have empty bodies, and the tests' statuses are the
\* ones the decision was taken on.
C10_RemovePassed ==
    [][(lastOp'.op = "remove_keywords" /\ lastOp'.arg = "PASSED") =>
        \A u \in Subtree(lastOp'.node) :
            /\ Len(tests'[u]) = Len(tests[u])
            /\ \A i \in 1..Len(tests[u]) :
                  /\ tests'[u][i].status = tests[u][i].status
                  /\ Len(tests'[u][i].body) = Len(tests[u][i].body)
                  /\ tests[u][i].status = FAIL => tests'[u][i].body = tests[u][i].body
                  /\ tests[u][i].status = PASS =>
                        \A j \in 1..Len(tests'[u][i].body) :
                            IsKeyword(tests'[u][i].body[j]) =>
                                /\ tests'[u][i].body[j].body = <<>>
                                /\ tests'[u][i].body[j].kwname = tests[u][i].body[j].kwname]_vars

\* C10 witness: remove_keywords('PASSED') ran on the root; the passed test of
\* sub1 has a keyword with an empty body, the failed test of sub11 still has
\* the contents of its passed keyword.
C10_Witness ==
    /\ lastOp.op = "remove_keywords" /\ lastOp.arg = "PASSED" /\ lastOp.node = "root"
    /\ tests["sub1"][1].status = PASS
    /\ IsKeyword(tests["sub1"][1].body[2]) /\ tests["sub1"][1].body[2].body = <<>>
    /\ tests["sub11"][1].status = FAIL
    /\ tests["sub11"][1].body[2].status = PASS
    /\ tests["sub11"][1].body[2].body = <<Message("m6", "TRACE")>>

AllTestNodes(tv) == UNION {Range(tv[u]) : u \in Suites}

\* C6: configure on a suite that has a parent raises before anything is
\* applied: tests, bodies, documentation and metadata are as before.  On the
\* root the options are applied.
C6_ConfigureRootOnly ==
    [][lastOp'.op = "configure" =>
        IF parent(lastOp'.node) # NoSuite
        THEN /\ lastOp'.err = NotRootError
             /\ tests' = tests
             /\ attrs' = attrs
        ELSE ~lastOp'.arg.unknown =>
             /\ lastOp'.err = NoError
             /\ lastOp'.arg.doc # Unset => attrs'[lastOp'.node].doc = lastOp'.arg.doc
             /\ lastOp'.arg.metadata # <<>> =>
                   lastOp'.arg.metadata \in Range(attrs'[lastOp'.node].metadata)
             /\ lastOp'.arg.include_tags # {} =>
                   \A t \in AllTestNodes(tests') : t.tags \cap lastOp'.arg.include_tags # {}
             /\ lastOp'.arg.log_level = "WARN" =>
                   \A t \in AllTestNodes(tests') :
                       \A m \in Range(AllMessages(t.body)) : IsWarnOrError(m)
             /\ lastOp'.arg.remove_keywords = "ALL" =>
                   \A t \in AllTestNodes(tests') : \A j \in 1..Len(t.body) :
                       IsKeyword(t.body[j]) => t.body[j].body = <<>>]_vars

\* C6 witness: configure with every option was called on sub1 and raised; sub1
\* has no documentation or metadata, its test still holds its DEBUG message and
\* the test of sub11, which lacks the selected tag, is still there.
C6_Witness ==
    /\ lastOp.op = "configure" /\ lastOp.node = "sub1"
    /\ lastOp.arg.doc # Unset /\ lastOp.arg.log_level = "WARN"
    /\ lastOp.arg.remove_keywords = "ALL" /\ lastOp.arg.include_tags = {"smoke"}
    /\ lastOp.err = NotRootError
    /\ attrs["sub1"].doc = "" /\ attrs["sub1"].metadata = <<>>
    /\ Message("m1", "DEBUG") \in Range(AllMessages(tests["sub1"][1].body))
    /\ Len(tests["sub11"]) = 1 /\ tests["sub11"][1].tags = {}

IsKeywordLike(n) == n.type \in {"KEYWORD", "SETUP", "TEARDOWN"}

\* The keywords at any depth of a body, those inside control blocks and the
\* teardowns of keywords included.
RECURSIVE AllKeywords(_)
AllKeywords(items) ==
    IF items = <<>> THEN {}
    ELSE LET h == Head(items)
         IN (IF h.type = "MESSAGE" THEN {}
             ELSE IF IsKeywordLike(h)
             THEN {h} \cup AllKeywords(h.body)
                      \cup (IF h._teardown = NoneValue THEN {}
                            ELSE {h._teardown} \cup AllKeywords(h._teardown.body))
             ELSE AllKeywords(h.body))
            \cup AllKeywords(Tail(items))

\* The keywords of suite u in the tree (tv, av): those of its tests and its
\* setup and teardown.
SuiteKeywords(tv, av, u) ==
    UNION {AllKeywords(tv[u][i].body) : i \in 1..Len(tv[u])}
    \cup AllKeywords(SelectSeq(<<av[u].setup, av[u].teardown>>, IsKeywordLike))

SameHeader(a, b) ==
    /\ a.type = b.type
    /\ a.kwname = b.kwname /\ a.libname = b.libname
    /\ a.status = b.status
    /\ a.starttime = b.starttime /\ a.endtime = b.endtime

\* C11: after remove_keywords('ALL') on a suite no keyword of its subtree, at
\* any depth, has a non-empty body; every keyword that remains has the name,
\* status and timestamps it had, every test its status and every suite its
\* derived status.
C11_RemoveAll ==
    [][(lastOp'.op = "remove_keywords" /\ lastOp'.arg = "ALL") =>
        /\ \A u \in Subtree(lastOp'.node) :
              /\ \A k \in SuiteKeywords(tests', attrs', u) : k.body = <<>>
              /\ Len(tests'[u]) = Len(tests[u])
              /\ \A i \in 1..Len(tests[u]) :
                    /\ tests'[u][i].status = tests[u][i].status
                    /\ Len(tests'[u][i].body) = Len(tests[u][i].body)
                    /\ \A j \in 1..Len(tests[u][i].body) :
                          /\ tests'[u][i].body[j].type = tests[u][i].body[j].type
                          /\ IsKeyword(tests[u][i].body[j]) =>
                                SameHeader(tests'[u][i].body[j], tests[u][i].body[j])
              /\ attrs[u].setup # NoneValue => SameHeader(attrs'[u].setup, attrs[u].setup)
              /\ attrs[u].teardown # NoneValue =>
                    SameHeader(attrs'[u].teardown, attrs[u].teardown)
        /\ \A s \in Suites : TestSuite_status(s)' = TestSuite_status(s)]_vars

\* C11 witness: remove_keywords('ALL') ran on the root; the failed test of
\* sub11 has its FOR block and its passed, timed keyword left without contents,
\* the setup of sub1 is empty and still timed, and the root reads FAIL.
C11_Witness ==
    /\ lastOp.op = "remove_keywords" /\ lastOp.arg = "ALL" /\ lastOp.node = "root"
    /\ tests["sub11"][1].status = FAIL
    /\ tests["sub11"][1].body[1].type = "FOR" /\ tests["sub11"][1].body[1].body = <<>>
    /\ tests["sub11"][1].body[2].kwname = "Last" /\ tests["sub11"][1].body[2].status = PASS
    /\ tests["sub11"][1].body[2].starttime = T1 /\ tests["sub11"][1].body[2].body = <<>>
    /\ attrs["sub1"].setup.kwname = "Open" /\ attrs["sub1"].setup.body = <<>>
    /\ attrs["sub1"].setup.endtime = T1
    /\ TestSuite_status("root") = FAIL

KindOf(node) ==
    CASE node.class = "TestCase" -> "test"
      [] node.class = "Keyword" -> "keyword"
      [] node.class = "For" -> "for"
      [] node.class = "ForIteration" -> "for_iteration"
      [] node.class = "While" -> "while"
      [] node.class = "WhileIteration" -> "while_iteration"
      [] node.class = "If" -> "if"
      [] node.class = "IfBranch" -> "if_branch"
      [] node.class = "Message" -> "message"

\* The calls the claim describes for a node at a path: the start hook of its
\* kind, the same for each child in the order of the body, the end hook.
RECURSIVE ClaimedHooks(_, _)
RECURSIVE ClaimedBodyHooks(_, _, _)
ClaimedHooks(node, path) ==
    <<Hook("start", KindOf(node), path)>>
    \o ClaimedBodyHooks(node.body, path, 1)
    \o <<Hook("end", KindOf(node), path)>>
ClaimedBodyHooks(items, path, i) ==
    IF i > Len(items) THEN <<>>
    ELSE ClaimedHooks(items[i], Append(path, i)) \o ClaimedBodyHooks(items, path, i + 1)

IsPrefix(p, q) == Len(p) <= Len(q) /\ SubSeq(q, 1, Len(p)) = p

VisitReturned == obj.stack = <<>> /\ obj.hooks # <<>>

\* C13: with a visitor that overrides nothing the hooks are called in the
\* claimed order: at any moment the calls made so far are the beginning of
\* start hook, children in body order, end hook, taken recursively, and when
\* the visit has returned they are all of it, so that every node has exactly
\* one start and one end hook of its own kind, the end before its parent's.
C13_VisitOrder ==
    /\ IsPrefix(obj.hooks, ClaimedHooks(obj.root, <<>>))
    /\ VisitReturned => obj.hooks = ClaimedHooks(obj.root, <<>>)

\* C13 witness: a visit has returned on a tree whose FOR iterations hold a
\* message and a keyword with a message, and whose WHILE iteration holds a
\* message; 24 hooks were called, the iterations' start hooks among them, the
\* end of the test last.
C13_Witness ==
    /\ VisitReturned
    /\ Len(obj.root.body[1].body[1].body) = 1
    /\ Len(obj.root.body[1].body[2].body) = 2
    /\ obj.root.body[2].class = "While" /\ Len(obj.root.body[2].body[1].body) = 1
    /\ Len(obj.hooks) = 24
    /\ obj.hooks[7] = Hook("start", "for_iteration", <<1, 2>>)
    /\ obj.hooks[17] = Hook("start", "while_iteration", <<2, 1>>)
    /\ obj.hooks[24] = Hook("end", "test", <<>>)

\* The suites above a suite, up to the root.
RECURSIVE Ancestors(_)
Ancestors(s) ==
    IF parent(s) = NoSuite THEN {} ELSE {parent(s)} \cup Ancestors(parent(s))

HadPassedTest(s) ==
    \E u \in Subtree(s) : \E i \in 1..Len(tests[u]) : tests[u][i].status = PASS

\* C14: after suite_teardown_failed on a suite whose subtree held a test with
\* status PASS, the status of that suite and of every suite above it reads
\* FAIL, whatever the other tests are.
C14_TeardownFailsAncestors ==
    [][(lastOp'.op = "suite_teardown_failed" /\ HadPassedTest(lastOp'.node)) =>
        \A a \in {lastOp'.node} \cup Ancestors(lastOp'.node) :
            TestSuite_status(a)' = FAIL]_vars

\* C14 witness: suite_teardown_failed ran on sub11, whose test carries the
\* teardown text; sub11, sub1 and the root read FAIL although sub2 holds a
\* passed test and reads PASS.
C14_Witness ==
    /\ lastOp.op = "suite_teardown_failed" /\ lastOp.node = "sub11"
    /\ \E i \in 1..Len(tests["sub11"]) :
          /\ tests["sub11"][i].status = FAIL
          /\ tests["sub11"][i].message = <<TeardownFailedNote(lastOp.arg)>>
    /\ \A i \in 1..Len(tests["sub1"]) : tests["sub1"][i].status # FAIL
    /\ TestSuite_status("sub11") = FAIL
    /\ TestSuite_status("sub1") = FAIL
    /\ TestSuite_status("root") = FAIL
    /\ TestSuite_status("sub2") = PASS

\* C15: on a node that stores a status, passed = true sets PASS and
\* passed = false sets FAIL; failed = true sets FAIL and failed = false sets
\* PASS.  Neither raises, whatever status was stored, and nothing else of the
\* node changes.
C15_PassedFailedSetters ==
    [][lastOp'.op \in {"passed=", "failed="} =>
        /\ lastOp'.err = NoError
        /\ obj'.status = IF lastOp'.arg = (lastOp'.op = "passed=") THEN PASS ELSE FAIL
        /\ obj' = [obj EXCEPT !.status = obj'.status]]_vars

\* C15 witness: failed = False was assigned on a test, which is constructed
\* with status FAIL; it did not raise and the status is PASS.
C15_Witness ==
    /\ lastOp.op = "failed=" /\ lastOp.arg = FALSE /\ lastOp.node = "TEST"
    /\ lastOp.err = NoError
    /\ obj.type = "TEST" /\ obj.status = PASS

\* How many of the four predicates read true.
TrueCount(r) ==
    Cardinality({k \in {"passed", "failed", "skipped", "not_run"} : r[k]})

\* C16: whenever the four predicates of a node are read: on a keyword or
\* control node with a status among PASS, FAIL, SKIP, NOT RUN exactly one is
\* true; on a suite exactly one of passed, failed, skipped is true and not_run
\* is false; on a test not_run is false, so at most one is true, and none when
\* the stored status is NOT RUN.
C16_PredicatesExclusive ==
    lastOp.op = "predicates" =>
        IF lastOp.node = "SUITE"
        THEN ~lastOp.ret.not_run /\ TrueCount(lastOp.ret) = 1
        ELSE IF lastOp.node = "TEST"
        THEN /\ ~lastOp.ret.not_run
             /\ TrueCount(lastOp.ret) <= 1
             /\ lastOp.arg = NOT_RUN => TrueCount(lastOp.ret) = 0
        ELSE lastOp.arg \in StatusValues => TrueCount(lastOp.ret) = 1

\* C16 witness: the predicates of a test whose stored status is NOT RUN were
\* read, and all four are false.
C16_Witness ==
    /\ lastOp.op = "predicates" /\ lastOp.node = "TEST" /\ lastOp.arg = NOT_RUN
    /\ obj.type = "TEST" /\ obj.status = NOT_RUN
    /\ lastOp.ret = [passed |-> FALSE, failed |-> FALSE,
                     skipped |-> FALSE, not_run |-> FALSE]

====
